---- MODULE Spec2Model ----
(***************************************************************************)
(* The flight booking dialog (dialogs/booking_dialog.py) and the LUIS      *)
(* adapter (helpers/luis_helper.py) as state machines.                     *)
(*                                                                         *)
(* Python values are records [kind, s, n]: kind is "none", "str", "int" or *)
(* "bool"; a str carries its code points in s, an int or bool its number   *)
(* in n.  Strings are sequences of code points so that str.isdigit, the    *)
(* TIMEX patterns and the lexical comparison of dates are computed, not    *)
(* assumed.                                                                *)
(***************************************************************************)
EXTENDS Integers, Sequences, FiniteSets, TLC

VARIABLES
    bd,             \* step_context.options: the BookingDetails being filled
    seed,           \* the BookingDetails the dialog was started with
    dialog_id,      \* the dialog_id argument of BookingDialog.__init__
    stepIndex,      \* WaterfallDialog's index of the current step (0-based)
    pc,             \* "run" | "wait" | "done" | "cancelled" | "error"
    result,         \* step_context.result handed to the step about to run
    pending,        \* id of the prompt / sub-dialog the waterfall waits on
    pendingOptions, \* the options that prompt / sub-dialog was begun with
    trace,          \* the step functions executed so far, in order
    prompts,        \* the prompts / sub-dialogs begun so far, in order:
                    \* [id, step that began it, options it was begun with]
    answers,        \* what each of those prompts / sub-dialogs returned
    sent,           \* activities sent with send_activity, in order
    summary,        \* the five fields rendered into confirm_step's msg
    events,         \* telemetry events tracked so far
    returned,       \* value passed to end_dialog
    error,          \* exception raised by a step, "none" when none
    lq,             \* state of one LuisHelper.execute_luis_query call
    world           \* several conversations served by one BookingDialog:
                    \* [st: conversation -> its dialog state, init: st at
                    \* the start, log: conversation -> its turns so far]

vars == <<bd, seed, dialog_id, stepIndex, pc, result, pending, pendingOptions,
          trace, prompts, answers, sent, summary, events, returned, error, lq,
          world>>

oneVars == <<bd, seed, dialog_id, stepIndex, pc, result, pending,
             pendingOptions, trace, prompts, answers, sent, summary, events,
             returned, error>>

dlgVars == <<oneVars, world>>

----------------------------------------------------------------------------
(* Python values *)

None == [kind |-> "none", s |-> <<>>, n |-> 0]
PyStr(chars) == [kind |-> "str", s |-> chars, n |-> 0]
PyInt(i) == [kind |-> "int", s |-> <<>>, n |-> i]
PyBool(b) == [kind |-> "bool", s |-> <<>>, n |-> IF b THEN 1 ELSE 0]

\* Python truthiness, as used by `not x` and `if x`
Truthy(v) ==
    CASE v.kind = "none" -> FALSE
      [] v.kind = "str"  -> Len(v.s) > 0
      [] OTHER           -> v.n # 0

IsDigitChar(c) == c \in 48..57

\* str.isdigit(): non-empty and every character a digit
isdigit(chars) ==
    /\ Len(chars) > 0
    /\ \A i \in 1..Len(chars) : IsDigitChar(chars[i])

\* a > b on two str values: lexicographic on code points
StrGT(a, b) ==
    \E i \in 1..Len(a) :
        /\ \A j \in 1..(i - 1) : j <= Len(b) /\ a[j] = b[j]
        /\ \/ i > Len(b)
           \/ (i <= Len(b) /\ a[i] > b[i])

----------------------------------------------------------------------------
(* String literals used as inputs *)

EmptyStr == <<>>
Paris == <<80, 97, 114, 105, 115>>
Lyon == <<76, 121, 111, 110>>
Rome == <<82, 111, 109, 101>>
S500 == <<53, 48, 48>>                                 \* "500"
SFive == <<102, 105, 118, 101>>                        \* "five"
D0801 == <<50, 48, 50, 51, 45, 48, 56, 45, 48, 49>>    \* "2023-08-01"
D0810 == <<50, 48, 50, 51, 45, 48, 56, 45, 49, 48>>    \* "2023-08-10"
DMonth == <<50, 48, 50, 51, 45, 48, 54>>               \* "2023-06"
DWeekday == <<88, 88, 88, 88, 45, 87, 88, 88, 45, 54>> \* "XXXX-WXX-6"

\* Values a BookingDetails may be constructed with (booking_details.py)
SeedDestinations == {None, PyStr(Paris), PyStr(EmptyStr)}
SeedOrigins == {None, PyStr(Lyon)}
SeedBudgets == {None, PyStr(S500), PyStr(SFive), PyStr(EmptyStr), PyInt(500)}
SeedDates == {None, PyStr(EmptyStr), PyStr(D0801), PyStr(D0810), PyStr(DMonth),
              PyStr(DWeekday)}
DialogIds == {None, PyStr(Rome)}

\* What the user may type at a TextPrompt
UserTexts == {Rome, S500, SFive}

\* What a DateResolverDialog may return
ResolvedDates == {D0801, D0810}

----------------------------------------------------------------------------
(* TIMEX classification used by is_ambiguous; 45 is "-", 88 "X", 87 "W" *)

IsDefiniteDate(t) ==
    /\ Len(t) = 10
    /\ \A i \in {1, 2, 3, 4, 6, 7, 9, 10} : IsDigitChar(t[i])
    /\ t[5] = 45 /\ t[8] = 45

IsYearMonth(t) ==
    /\ Len(t) = 7
    /\ \A i \in {1, 2, 3, 4, 6, 7} : IsDigitChar(t[i])
    /\ t[5] = 45

IsWeekday(t) ==
    /\ Len(t) = 10
    /\ SubSeq(t, 1, 9) = <<88, 88, 88, 88, 45, 87, 88, 88, 45>>
    /\ IsDigitChar(t[10])

\* Timex(timex).types
TimexTypes(t) ==
    CASE IsDefiniteDate(t) -> {"definite", "date"}
      [] IsYearMonth(t)    -> {"daterange"}
      [] IsWeekday(t)      -> {"date"}
      [] OTHER             -> {}

\* the `not` of is_ambiguous dropped
is_ambiguous_inverted(timex) == "definite" \in TimexTypes(timex.s)

is_ambiguous(timex) == "definite" \notin TimexTypes(timex.s)

----------------------------------------------------------------------------
(* The waterfall *)

\* origin_step listed before destination_step
StepsSwapped == <<"origin_step", "destination_step", "max_budget_step",
                  "travel_date_step", "travel_back_date_step",
                  "confirm_step", "final_step">>

Steps == <<"destination_step", "origin_step", "max_budget_step",
           "travel_date_step", "travel_back_date_step", "confirm_step",
           "final_step">>

TextPromptId == "TextPrompt"
ConfirmPromptId == "ConfirmPrompt"
DepartureDialogId == "departureDateDialogue"
ReturnDialogId == "returnDateDialogue"

\* WaterfallDialog.run_step: the step at stepIndex is called
RunStep(name) ==
    /\ pc = "run"
    /\ stepIndex < Len(Steps)
    /\ Steps[stepIndex + 1] = name
    /\ trace' = Append(trace, name)

\* step_context.prompt / step_context.begin_dialog: suspend on a child
BeginChild(id, options) ==
    /\ pc' = "wait"
    /\ pending' = id
    /\ pendingOptions' = options
    /\ prompts' = Append(prompts, [id |-> id, step |-> Steps[stepIndex + 1],
                                    options |-> options])
    /\ UNCHANGED <<stepIndex, result, answers>>

\* step_context.next(value): the following step runs with value as result
NextStep(value) ==
    /\ pc' = "run"
    /\ stepIndex' = stepIndex + 1
    /\ result' = value
    /\ UNCHANGED <<pending, pendingOptions, prompts, answers>>

\* a step function raises
Raise(exception) ==
    /\ pc' = "error"
    /\ error' = exception
    /\ UNCHANGED <<stepIndex, result, pending, pendingOptions, prompts,
                   answers>>

\* `if not field` in place of `if field is None`
IsUnsetFalsy(v) == ~(CASE v.kind = "none" -> FALSE
                       [] v.kind = "str"  -> Len(v.s) > 0
                       [] OTHER           -> v.n # 0)

\* field is None
IsUnset(v) == v = None

destination_step ==
    /\ RunStep("destination_step")
    /\ IF IsUnset(bd.destination)
          THEN BeginChild(TextPromptId, None)
          ELSE NextStep(bd.destination)
    /\ UNCHANGED <<bd, seed, dialog_id, sent, summary, events, returned,
                   error, lq, world>>

\* the answer captured into origin instead of destination
origin_step_wrong_field ==
    /\ RunStep("origin_step")
    /\ bd' = [bd EXCEPT !.origin = result]
    /\ IF IsUnset(bd.origin)
          THEN BeginChild(TextPromptId, None)
          ELSE NextStep(bd.origin)
    /\ UNCHANGED <<seed, dialog_id, sent, summary, events, returned, error,
                   lq, world>>

origin_step ==
    /\ RunStep("origin_step")
    /\ bd' = [bd EXCEPT !.destination = result]
    /\ IF IsUnset(bd.origin)
          THEN BeginChild(TextPromptId, None)
          ELSE NextStep(bd.origin)
    /\ UNCHANGED <<seed, dialog_id, sent, summary, events, returned, error,
                   lq, world>>

max_budget_step ==
    /\ RunStep("max_budget_step")
    /\ bd' = [bd EXCEPT !.origin = result]
    /\ IF IsUnset(bd.max_budget)
          THEN BeginChild(TextPromptId, None)
          ELSE NextStep(bd.max_budget)
    /\ UNCHANGED <<seed, dialog_id, sent, summary, events, returned, error,
                   lq, world>>

\* not max_budget.isdigit()
BudgetWarned(budget) == ~isdigit(budget.s)

\* `and` in place of `or`, the `not` lost
NeedsResolverAnd(date) == Truthy(date) /\ is_ambiguous(date)

\* not travel_date or self.is_ambiguous(travel_date)
NeedsResolver(date) == ~Truthy(date) \/ is_ambiguous(date)

travel_date_step ==
    /\ RunStep("travel_date_step")
    /\ bd' = [bd EXCEPT !.max_budget = result]
    /\ IF result.kind # "str"
          THEN \* .isdigit is an attribute of str only
               /\ Raise("AttributeError")
               /\ UNCHANGED sent
          ELSE /\ sent' = IF BudgetWarned(result)
                             THEN Append(sent, "BudgetWarning")
                             ELSE sent
               /\ IF NeedsResolver(bd.travel_date)
                     THEN BeginChild(DepartureDialogId, bd.travel_date)
                     ELSE NextStep(bd.travel_date)
               /\ UNCHANGED error
    /\ UNCHANGED <<seed, dialog_id, summary, events, returned, lq, world>>

travel_back_date_step ==
    /\ RunStep("travel_back_date_step")
    /\ bd' = [bd EXCEPT !.travel_date = result]
    /\ IF NeedsResolver(bd.travel_back_date)
          THEN BeginChild(ReturnDialogId, bd.travel_back_date)
          ELSE NextStep(bd.travel_back_date)
    /\ UNCHANGED <<seed, dialog_id, sent, summary, events, returned, error,
                   lq, world>>

\* the two operands of > exchanged
DatesInvertedSwapped(travel_date, travel_back_date) ==
    StrGT(travel_back_date.s, travel_date.s)

\* booking_details.travel_date > booking_details.travel_back_date
DatesInverted(travel_date, travel_back_date) ==
    StrGT(travel_date.s, travel_back_date.s)

confirm_step ==
    /\ RunStep("confirm_step")
    /\ bd' = [bd EXCEPT !.travel_back_date = result]
    /\ IF bd.travel_date.kind # "str" \/ result.kind # "str"
          THEN \* > is not defined between str and NoneType
               /\ Raise("TypeError")
               /\ UNCHANGED <<sent, summary>>
          ELSE /\ sent' = IF DatesInverted(bd.travel_date, result)
                             THEN Append(sent, "DateWarning")
                             ELSE sent
               /\ summary' = <<bd'>>
               /\ BeginChild(ConfirmPromptId, None)
               /\ UNCHANGED error
    /\ UNCHANGED <<seed, dialog_id, events, returned, lq, world>>

BookingDialogName == <<66, 111, 111, 107, 105, 110, 103, 68, 105, 97, 108, 111,
                       103>>                           \* "BookingDialog"

\* dialog_id or BookingDialog.__name__: the id the dialog is registered under
RegisteredId(arg) == IF Truthy(arg) THEN arg ELSE PyStr(BookingDialogName)

\* properties["DialogId"] = self.dialog_id, where self.dialog_id = dialog_id
TrackEvent(name) ==
    events' = Append(events, [name |-> name, DialogId |-> dialog_id])

\* the test of step_context.result negated
final_step_inverted ==
    /\ RunStep("final_step")
    /\ IF ~Truthy(result)
          THEN /\ TrackEvent("SuggestionConfirmed")
               /\ returned' = <<bd>>
          ELSE /\ TrackEvent("SuggestionRefuting")
               /\ returned' = <<None>>
    /\ pc' = "done"
    /\ UNCHANGED <<bd, seed, dialog_id, stepIndex, result, pending,
                   pendingOptions, prompts, answers, sent, summary, error,
                   lq, world>>

\* the return of the affirmative branch lost: control falls through to the
\* refuting branch
final_step_fallthrough ==
    /\ RunStep("final_step")
    /\ IF Truthy(result)
          THEN /\ events' = events \o
                     <<[name |-> "SuggestionConfirmed", DialogId |-> dialog_id],
                       [name |-> "SuggestionRefuting", DialogId |-> dialog_id]>>
               /\ returned' = <<None>>
          ELSE /\ TrackEvent("SuggestionRefuting")
               /\ returned' = <<None>>
    /\ pc' = "done"
    /\ UNCHANGED <<bd, seed, dialog_id, stepIndex, result, pending,
                   pendingOptions, prompts, answers, sent, summary, error,
                   lq, world>>

final_step ==
    /\ RunStep("final_step")
    /\ IF Truthy(result)
          THEN /\ TrackEvent("SuggestionConfirmed")
               /\ returned' = <<bd>>
          ELSE /\ TrackEvent("SuggestionRefuting")
               /\ returned' = <<None>>
    /\ pc' = "done"
    /\ UNCHANGED <<bd, seed, dialog_id, stepIndex, result, pending,
                   pendingOptions, prompts, answers, sent, summary, error,
                   lq, world>>

----------------------------------------------------------------------------
(* The user and the child dialogs *)

\* WaterfallDialog.resume_dialog: the step after the suspended one runs
Resume(value) ==
    /\ pc = "wait"
    /\ pc' = "run"
    /\ stepIndex' = stepIndex + 1
    /\ result' = value
    /\ pending' = "none"
    /\ pendingOptions' = None
    /\ answers' = Append(answers, value)
    /\ UNCHANGED <<bd, seed, dialog_id, trace, prompts, sent, summary,
                   events, returned, error, lq, world>>

TextPromptAnswer ==
    /\ pending = TextPromptId
    /\ \E t \in UserTexts : Resume(PyStr(t))

ConfirmPromptAnswer ==
    /\ pending = ConfirmPromptId
    /\ \E b \in BOOLEAN : Resume(PyBool(b))

DateResolverReturn ==
    /\ pending \in {DepartureDialogId, ReturnDialogId}
    /\ \E d \in ResolvedDates : Resume(PyStr(d))

\* a cancellation handled as a declined booking
CancelAsRefusal ==
    /\ pc = "wait"
    /\ pc' = "cancelled"
    /\ pending' = "none"
    /\ pendingOptions' = None
    /\ TrackEvent("SuggestionRefuting")
    /\ UNCHANGED <<bd, seed, dialog_id, stepIndex, result, trace, prompts,
                   answers, sent, summary, returned, error, lq, world>>

\* CancelAndHelpDialog: "cancel" typed at a suspension point
Cancel ==
    /\ pc = "wait"
    /\ pc' = "cancelled"
    /\ pending' = "none"
    /\ pendingOptions' = None
    /\ UNCHANGED <<bd, seed, dialog_id, stepIndex, result, trace, prompts,
                   answers, sent, summary, events, returned, error, lq, world>>

----------------------------------------------------------------------------

(* LuisHelper.execute_luis_query *)

MaxIntents == 3
MaxScore == 1

\* class Intent(Enum)
IntentLabels == {"BookFlight", "Cancel", "GetWeather", "NoneIntent"}
BOOK_FLIGHT == "BookFlight"

\* recognizer_result.intents: a dict in insertion order, as the sequence of
\* its (label, score) items; labels are distinct
IntentMappings ==
    LET Items == [label : IntentLabels, score : 0..MaxScore]
        Seqs == UNION {[1..n -> Items] : n \in 0..MaxIntents}
    IN {m \in Seqs : \A i, j \in 1..Len(m) :
                          m[i].label = m[j].label => i = j}

Keys(intents) == [i \in 1..Len(intents) |-> intents[i].label]

\* recognizer_result.intents.get
Get(intents, label) ==
    intents[CHOOSE i \in 1..Len(intents) : intents[i].label = label].score

\* an insertion that is not stable: the new item goes before the items
\* of equal key
InsertDescUnstable(sq, k, intents) ==
    LET p == Cardinality({i \in 1..Len(sq) :
                              Get(intents, sq[i]) > Get(intents, k)})
    IN SubSeq(sq, 1, p) \o <<k>> \o SubSeq(sq, p + 1, Len(sq))

\* one insertion of a stable sort in descending order of key: the new item
\* goes behind every item whose key is not smaller
InsertDesc(sq, k, intents) ==
    LET p == Cardinality({i \in 1..Len(sq) :
                              Get(intents, sq[i]) >= Get(intents, k)})
    IN SubSeq(sq, 1, p) \o <<k>> \o SubSeq(sq, p + 1, Len(sq))

RECURSIVE SortedPrefix(_, _, _)
SortedPrefix(keys, intents, n) ==
    IF n = 0 THEN <<>>
    ELSE InsertDesc(SortedPrefix(keys, intents, n - 1), keys[n], intents)

\* sorted(intents, key=intents.get, reverse=True)
SortedByScore(intents) == SortedPrefix(Keys(intents), intents, Len(intents))

\* the intent expression: <<>> stands for None, <<label>> for a label
SelectIntent(intents) ==
    IF Len(intents) > 0
       THEN SubSeq(SortedByScore(intents), 1, 1)
       ELSE <<>>

\* BookingDetails(): every field None
EmptyBooking ==
    [destination |-> None, origin |-> None, max_budget |-> None,
     travel_date |-> None, travel_back_date |-> None]

\* the five assignments, in order: field, entity category
Projection ==
    <<[field |-> "destination", category |-> "To"],
      [field |-> "origin", category |-> "From"],
      [field |-> "max_budget", category |-> "maxBudget"],
      [field |-> "travel_date", category |-> "departureDate"],
      [field |-> "travel_back_date", category |-> "returnDate"]>>

Categories == {"To", "From", "maxBudget", "departureDate", "returnDate"}

\* query_results['entities']: per category, whether the key is present and
\* the list of values under it
Absent == [present |-> FALSE, vals |-> <<>>]
Present(vals) == [present |-> TRUE, vals |-> vals]

EntityMaps ==
    {[c \in Categories |->
        CASE c = "To" -> to
          [] c = "From" -> from
          [] c = "maxBudget" -> budget
          [] c = "departureDate" -> dep
          [] c = "returnDate" -> ret] :
       to \in {Absent, Present(<<>>), Present(<<PyStr(Paris), PyStr(Rome)>>)},
       from \in {Absent, Present(<<PyStr(Lyon)>>)},
       budget \in {Absent, Present(<<PyStr(S500)>>)},
       dep \in {Absent, Present(<<PyStr(D0810)>>)},
       ret \in {Absent, Present(<<PyStr(D0801)>>)}}

\* the assignments from the i-th on; [0] of an empty list raises IndexError
\* and leaves the remaining fields as they are
RECURSIVE Project(_, _, _)
Project(rec, entities, i) ==
    IF i > Len(Projection) THEN [bd |-> rec, raised |-> FALSE]
    ELSE LET f == Projection[i].field
             e == entities[Projection[i].category]
         IN IF e.present
               THEN IF Len(e.vals) = 0
                       THEN [bd |-> rec, raised |-> TRUE]
                       ELSE Project([rec EXCEPT ![f] = e.vals[1]],
                                    entities, i + 1)
               ELSE Project([rec EXCEPT ![f] = None], entities, i + 1)

LqIdle ==
    [pc |-> "idle", intents |-> <<>>, entities |-> [c \in Categories |-> Absent],
     intent |-> <<>>, result |-> <<>>, logged |-> FALSE, exception |-> "none"]

LqCall == [LqIdle EXCEPT !.pc = "call"]

\* await luis_recognizer.recognize(turn_context) returns a result
recognize ==
    /\ lq.pc = "call"
    /\ \E m \in IntentMappings, e \in EntityMaps :
          lq' = [lq EXCEPT !.pc = "recognized", !.intents = m, !.entities = e]
    /\ UNCHANGED dlgVars

\* no try / except around the body: the exception leaves the function
Propagated(call, exception) ==
    [call EXCEPT !.pc = "raised", !.exception = exception]

\* except Exception as exception: print(exception), then return intent, result
Caught(call, exception) ==
    [call EXCEPT !.pc = "returned", !.logged = TRUE, !.exception = exception]

\* await luis_recognizer.recognize(turn_context) raises
recognize_raises ==
    /\ lq.pc = "call"
    /\ lq' = Caught(lq, "RecognizerError")
    /\ UNCHANGED dlgVars

\* a record is built for every intent that is not None
BuildsResultForAny(intent) == intent # <<>>

\* if intent == Intent.BOOK_FLIGHT.value
BuildsResult(intent) == intent = <<BOOK_FLIGHT>>

\* the rest of the try block and the return
execute_luis_query ==
    /\ lq.pc = "recognized"
    /\ LET intent == SelectIntent(lq.intents)
           p == Project(EmptyBooking, lq.entities, 1)
           assigned == [lq EXCEPT !.intent = intent,
                                  !.result = IF BuildsResult(intent)
                                                THEN <<p.bd>> ELSE <<>>]
       IN lq' = IF BuildsResult(intent) /\ p.raised
                   THEN Caught(assigned, "IndexError")
                   ELSE [assigned EXCEPT !.pc = "returned"]
    /\ UNCHANGED dlgVars

DialogIdleOne ==
    /\ bd = EmptyBooking
    /\ seed = bd
    /\ dialog_id = None
    /\ stepIndex = 0
    /\ pc = "idle"
    /\ result = None
    /\ pending = "none"
    /\ pendingOptions = None
    /\ trace = <<>>
    /\ prompts = <<>>
    /\ answers = <<>>
    /\ sent = <<>>
    /\ summary = <<>>
    /\ events = <<>>
    /\ returned = <<>>
    /\ error = "none"

(* Several conversations served by the one BookingDialog instance.  Each
   turn of a conversation (its start, an answer, a cancellation) is
   processed to completion: the waterfall runs until it suspends or ends. *)

NumConvs == 2

Convs == 1..NumConvs

WorldIdle == [st |-> <<>>, init |-> <<>>, log |-> <<>>, telemetry |-> <<>>]

\* BookingDetails.__init__: the five fields, and a list of its own when
\* unsupported_airports is None (0 here); lists are named by a number
BookingDetailsInit(args, unsupported_airports, fresh) ==
    [unsupported_airports |->
        IF unsupported_airports = 0 THEN fresh ELSE unsupported_airports] @@ args

\* the BookingDetails the conversations are started on
ConcSeeds ==
    {EmptyBooking,
     [destination |-> PyStr(Paris), origin |-> PyStr(Lyon),
      max_budget |-> PyStr(S500), travel_date |-> PyStr(D0810),
      travel_back_date |-> PyStr(D0801)],
     [EmptyBooking EXCEPT !.destination = PyStr(Paris),
                          !.max_budget = PyInt(500)]}

\* what the user of conversation c types, a text of their own so that a
\* value written to another conversation's record shows, and what the Date
\* Resolvers return
ConcTexts == <<Rome, S500, SFive>>
ConcTextOf(c) == ConcTexts[((c - 1) % Len(ConcTexts)) + 1]
ConcDates == {D0801}

\* the dialog state the framework keeps for a conversation
NewConv(details) ==
    [bd |-> details, stepIndex |-> 0, pc |-> "new", result |-> None,
     pending |-> "none", sent |-> <<>>, events |-> <<>>, returned |-> <<>>]

\* a booking_details kept on the dialog object: every conversation's steps
\* work on the record of the first conversation
OptionsOfShared(c) == 1

\* booking_details = step_context.options: the record of the conversation
\* the step runs for
OptionsOf(c) == c

Suspend(st, c, id) ==
    [st EXCEPT ![c].pc = "wait", ![c].pending = id]

Pass(st, c, value) ==
    [st EXCEPT ![c].stepIndex = @ + 1, ![c].result = value]

Capture(st, c, field) ==
    [st EXCEPT ![OptionsOf(c)].bd[field] = st[c].result]

Warn(st, c, text) ==
    [st EXCEPT ![c].sent = Append(@, text)]

End(st, c, name, value) ==
    [st EXCEPT ![c].pc = "done",
               ![c].events = Append(@, name),
               ![c].returned = value]

\* one step function called for conversation c
StepOnce(st, c) ==
    LET name == Steps[st[c].stepIndex + 1]
        res == st[c].result
        b == st[OptionsOf(c)].bd
    IN CASE name = "destination_step" ->
              IF IsUnset(b.destination)
                 THEN Suspend(st, c, TextPromptId)
                 ELSE Pass(st, c, b.destination)
         [] name = "origin_step" ->
              IF IsUnset(b.origin)
                 THEN Suspend(Capture(st, c, "destination"), c, TextPromptId)
                 ELSE Pass(Capture(st, c, "destination"), c, b.origin)
         [] name = "max_budget_step" ->
              IF IsUnset(b.max_budget)
                 THEN Suspend(Capture(st, c, "origin"), c, TextPromptId)
                 ELSE Pass(Capture(st, c, "origin"), c, b.max_budget)
         [] name = "travel_date_step" ->
              LET s1 == Capture(st, c, "max_budget")
                  s2 == IF BudgetWarned(res)
                           THEN Warn(s1, c, "BudgetWarning") ELSE s1
              IN IF res.kind # "str"
                    THEN [s1 EXCEPT ![c].pc = "error"]
                    ELSE IF NeedsResolver(b.travel_date)
                            THEN Suspend(s2, c, DepartureDialogId)
                            ELSE Pass(s2, c, b.travel_date)
         [] name = "travel_back_date_step" ->
              IF NeedsResolver(b.travel_back_date)
                 THEN Suspend(Capture(st, c, "travel_date"), c, ReturnDialogId)
                 ELSE Pass(Capture(st, c, "travel_date"), c,
                           b.travel_back_date)
         [] name = "confirm_step" ->
              LET s1 == Capture(st, c, "travel_back_date")
                  s2 == IF DatesInverted(b.travel_date, res)
                           THEN Warn(s1, c, "DateWarning") ELSE s1
              IN IF b.travel_date.kind # "str" \/ res.kind # "str"
                    THEN [s1 EXCEPT ![c].pc = "error"]
                    ELSE Suspend(s2, c, ConfirmPromptId)
         [] name = "final_step" ->
              IF Truthy(res)
                 THEN End(st, c, "SuggestionConfirmed", <<b>>)
                 ELSE End(st, c, "SuggestionRefuting", <<None>>)

\* the waterfall of conversation c runs until it suspends or ends
RECURSIVE RunSteps(_, _)
RunSteps(st, c) ==
    IF st[c].pc # "run" THEN st ELSE RunSteps(StepOnce(st, c), c)

\* one turn of conversation c processed to completion
ApplyTurn(st, c, turn) ==
    CASE turn.kind = "begin" ->
            RunSteps([st EXCEPT ![c].pc = "run"], c)
      [] turn.kind = "answer" ->
            RunSteps([st EXCEPT ![c].pc = "run", ![c].pending = "none",
                                ![c].stepIndex = @ + 1,
                                ![c].result = turn.value], c)
      [] turn.kind = "cancel" ->
            [st EXCEPT ![c].pc = "cancelled", ![c].pending = "none"]

\* self.telemetry_client: the one client of the dialog receives the events
\* of every conversation
Tracked(before, after, c) ==
    [i \in 1..(Len(after[c].events) - Len(before[c].events)) |->
        [Name |-> after[c].events[Len(before[c].events) + i], Conv |-> c]]

Turn(c, turn) ==
    /\ LET after == ApplyTurn(world.st, c, turn)
       IN world' = [world EXCEPT
                       !.st = after,
                       !.log[c] = Append(@, turn),
                       !.telemetry = @ \o Tracked(world.st, after, c)]
    /\ UNCHANGED <<oneVars, lq>>

ConvBegin ==
    \E c \in Convs :
        /\ world.st[c].pc = "new"
        /\ Turn(c, [kind |-> "begin", value |-> None])

\* what the pending prompt or sub-dialog may return
AnswersTo(c, id) ==
    CASE id = TextPromptId -> {PyStr(ConcTextOf(c))}
      [] id = ConfirmPromptId -> {PyBool(TRUE), PyBool(FALSE)}
      [] OTHER -> {PyStr(d) : d \in ConcDates}

ConvAnswer ==
    \E c \in Convs :
        /\ world.st[c].pc = "wait"
        /\ \E v \in AnswersTo(c, world.st[c].pending) :
              Turn(c, [kind |-> "answer", value |-> v])

ConvCancel ==
    \E c \in Convs :
        /\ world.st[c].pc = "wait"
        /\ Turn(c, [kind |-> "cancel", value |-> None])

InitConc ==
    /\ DialogIdleOne
    /\ lq = LqIdle
    /\ \E seeds \in [Convs -> ConcSeeds] :
          LET st0 == [c \in Convs |->
                        NewConv(BookingDetailsInit(seeds[c], 0, c))]
          IN world = [st |-> st0, init |-> st0,
                      log |-> [c \in Convs |-> <<>>], telemetry |-> <<>>]

NextConc == ConvBegin \/ ConvAnswer \/ ConvCancel

SpecConc == InitConc /\ [][NextConc]_vars

----------------------------------------------------------------------------
DialogIdle == DialogIdleOne /\ world = WorldIdle

InitLuis == DialogIdle /\ lq = LqCall

NextLuis == recognize \/ recognize_raises \/ execute_luis_query

SpecLuis == InitLuis /\ [][NextLuis]_vars

----------------------------------------------------------------------------
(* BookingDialog started on a seed *)

Init ==
    /\ bd \in [destination : SeedDestinations, origin : SeedOrigins,
               max_budget : SeedBudgets, travel_date : SeedDates,
               travel_back_date : SeedDates]
    /\ seed = bd
    /\ dialog_id \in DialogIds
    /\ stepIndex = 0
    /\ pc = "run"
    /\ result = None
    /\ pending = "none"
    /\ pendingOptions = None
    /\ trace = <<>>
    /\ prompts = <<>>
    /\ answers = <<>>
    /\ sent = <<>>
    /\ summary = <<>>
    /\ events = <<>>
    /\ returned = <<>>
    /\ error = "none"
    /\ lq = LqIdle
    /\ world = WorldIdle

Next ==
    \/ destination_step
    \/ origin_step
    \/ max_budget_step
    \/ travel_date_step
    \/ travel_back_date_step
    \/ confirm_step
    \/ final_step
    \/ TextPromptAnswer
    \/ ConfirmPromptAnswer
    \/ DateResolverReturn
    \/ Cancel

Spec == Init /\ [][Next]_vars

----------------------------------------------------------------------------
(* Properties *)

Ran(name) == \E i \in 1..Len(trace) : trace[i] = name

Count(sq, x) == Cardinality({i \in 1..Len(sq) : sq[i] = x})

\* the prompts / sub-dialogs begun by one step
BegunBy(step) == {i \in 1..Len(prompts) : prompts[i].step = step}

PromptIds == [i \in 1..Len(prompts) |-> prompts[i].id]

EventNames == [i \in 1..Len(events) |-> events[i].name]

Fields == {"destination", "origin", "max_budget", "travel_date",
           "travel_back_date"}

AllSet(rec) == \A f \in Fields : rec[f] # None

\* C1: whenever confirm_step has executed, it rendered the summary, and all
\* five primary fields of the BookingDetails, as rendered and as stored, are
\* non-null.
C1_ConfirmFieldsNonNull ==
    Ran("confirm_step") =>
        /\ summary # <<>>
        /\ AllSet(summary[1])
        /\ AllSet(bd)

\* C1 witness: confirm_step has rendered the summary of a run that began
\* with every field unset.
C1_Witness ==
    /\ Ran("confirm_step")
    /\ summary # <<>>
    /\ \A f \in Fields : seed[f] = None

\* a seed with all five fields populated and both dates unambiguous
FullSeed ==
    /\ AllSet(seed)
    /\ seed.travel_date.kind = "str"
    /\ seed.travel_back_date.kind = "str"
    /\ "definite" \in TimexTypes(seed.travel_date.s)
    /\ "definite" \in TimexTypes(seed.travel_back_date.s)

\* C2 as stated: a run started on a fully populated, unambiguous seed issues
\* no prompt of any kind, and so is never suspended.
C2_ZeroPrompts ==
    FullSeed => (prompts = <<>> /\ pc # "wait")

\* C2 amended: a run started on a fully populated, unambiguous seed issues
\* no text prompt and begins no Date Resolver; the only prompt it ever
\* issues is the yes/no confirmation of confirm_step, the only point
\* where it is suspended, and a run that ends in final_step has issued
\* exactly that one prompt.
C2_PassThroughToConfirm ==
    FullSeed =>
        /\ \A i \in 1..Len(prompts) :
              prompts[i].id = ConfirmPromptId /\ prompts[i].step = "confirm_step"
        /\ Len(prompts) <= 1
        /\ (pc = "wait" => pending = ConfirmPromptId)
        /\ (Ran("confirm_step") => PromptIds = <<ConfirmPromptId>>)
        /\ (pc = "done" => PromptIds = <<ConfirmPromptId>>)

\* C2 witness: a run on a full seed has ended in final_step having issued
\* the confirmation prompt only.
C2_Witness ==
    /\ FullSeed
    /\ pc = "done"
    /\ PromptIds = <<ConfirmPromptId>>

\* C3: final_step on an affirmative confirmation returns the completed
\* BookingDetails and tracks exactly one "confirmed" event and no
\* "refuting" one; on a negative confirmation it returns nothing and tracks
\* exactly one "refuting" event and no "confirmed" one.  No event is tracked
\* and nothing is returned before final_step runs, so a flow that reaches
\* final_step tracks exactly one of the two events.
C3_FinalStepOutcome ==
    /\ ~Ran("final_step") => (events = <<>> /\ returned = <<>>)
    /\ Ran("final_step") =>
          /\ pc = "done"
          /\ result \in {PyBool(TRUE), PyBool(FALSE)}
          /\ result = PyBool(TRUE) =>
                /\ EventNames = <<"SuggestionConfirmed">>
                /\ returned = <<bd>>
                /\ AllSet(bd)
          /\ result = PyBool(FALSE) =>
                /\ EventNames = <<"SuggestionRefuting">>
                /\ returned = <<None>>

\* C3 witness: final_step has run on an affirmative confirmation.
C3_Witness ==
    /\ Ran("final_step")
    /\ result = PyBool(TRUE)
    /\ returned = <<bd>>

\* the order of the steps the claim states
StatedOrder == <<"destination_step", "origin_step", "max_budget_step",
                 "travel_date_step", "travel_back_date_step", "confirm_step",
                 "final_step">>

\* C4: the steps run in the order Destination, Origin, MaxBudget,
\* TravelDate, TravelBackDate, Confirm, Final: the steps executed so far
\* are always an initial part of that order (none skipped, none twice), the
\* step index never decreases and grows by one at a time, and a suspended
\* waterfall is re-entered only by its prompt or sub-dialog returning into
\* the step that follows the suspended one.
C4_StepOrder ==
    /\ [](/\ Len(trace) <= Len(StatedOrder)
          /\ trace = SubSeq(StatedOrder, 1, Len(trace))
          /\ Len(trace) = IF pc = "run" THEN stepIndex ELSE stepIndex + 1)
    /\ [][/\ stepIndex' \in {stepIndex, stepIndex + 1}
          /\ (pc = "wait" /\ pc' = "run") =>
                /\ pending \in {TextPromptId, ConfirmPromptId,
                                DepartureDialogId, ReturnDialogId}
                /\ stepIndex' = stepIndex + 1
          /\ (pc = "wait" /\ pc' # "run") => pc' = "cancelled"]_vars

\* C4 witness: a run has executed all seven steps and was suspended, and
\* resumed, at least three times on the way.
C4_Witness ==
    /\ pc = "done"
    /\ trace = StatedOrder
    /\ Len(prompts) >= 3

\* a budget value that is a number, or a string of digits only
PurelyNumeric(v) == v.kind = "int" \/ (v.kind = "str" /\ isdigit(v.s))

\* C5 as stated: for every budget captured by travel_date_step, typed or
\* from the seed, the budget warning is sent exactly when the value is not
\* purely numeric, and the step goes on to its date handling either way
\* (it passes on to travel_back_date_step or suspends on the departure Date
\* Resolver; it does not end the flow).
C5_BudgetWarning ==
    Ran("travel_date_step") =>
        /\ Count(sent, "BudgetWarning") = IF PurelyNumeric(bd.max_budget)
                                             THEN 0 ELSE 1
        /\ error = "none"
        /\ \/ Ran("travel_back_date_step")
           \/ pc = "run" /\ stepIndex = 4
           \/ pc = "wait" /\ pending = DepartureDialogId
           \/ pc = "cancelled"

\* C6: once confirm_step has executed, the inverted-date warning has been
\* sent exactly when travel_date is lexically greater than
\* travel_back_date, and in both cases the summary was rendered and the
\* yes/no prompt issued.
C6_InvertedDateWarning ==
    Ran("confirm_step") =>
        /\ bd.travel_date.kind = "str" /\ bd.travel_back_date.kind = "str"
        /\ Count(sent, "DateWarning") =
              IF StrGT(bd.travel_date.s, bd.travel_back_date.s) THEN 1 ELSE 0
        /\ summary = <<bd>>
        /\ prompts[Len(prompts)].id = ConfirmPromptId
        /\ prompts[Len(prompts)].step = "confirm_step"
        /\ Cardinality(BegunBy("confirm_step")) = 1

\* C6 witness: confirm_step has run with travel_date "2023-08-10" and
\* travel_back_date "2023-08-01", and the warning was sent.
C6_Witness ==
    /\ Ran("confirm_step")
    /\ bd.travel_date = PyStr(D0810)
    /\ bd.travel_back_date = PyStr(D0801)
    /\ Count(sent, "DateWarning") = 1
    /\ pending = ConfirmPromptId

\* C7 as stated: no step raises, whatever the seed and the answers.
C7_NoFatalError ==
    /\ error = "none"
    /\ pc # "error"

\* C8: destination_step, origin_step and max_budget_step issue the text
\* prompt exactly when their field is None when they run (which is when it
\* is None in the seed, no earlier step writing it), and issue nothing
\* otherwise; origin_step and max_budget_step capture the answer, or the
\* seed's value, into the previous field.
C8_PromptOnlyUnsetFields ==
    /\ Ran("destination_step") =>
          /\ Cardinality(BegunBy("destination_step")) =
                IF seed.destination = None THEN 1 ELSE 0
          /\ \A i \in BegunBy("destination_step") :
                prompts[i].id = TextPromptId
    /\ Ran("origin_step") =>
          /\ Cardinality(BegunBy("origin_step")) =
                IF seed.origin = None THEN 1 ELSE 0
          /\ \A i \in BegunBy("origin_step") : prompts[i].id = TextPromptId
          /\ seed.destination # None => bd.destination = seed.destination
    /\ Ran("max_budget_step") =>
          /\ Cardinality(BegunBy("max_budget_step")) =
                IF seed.max_budget = None THEN 1 ELSE 0
          /\ \A i \in BegunBy("max_budget_step") : prompts[i].id = TextPromptId
          /\ seed.origin # None => bd.origin = seed.origin

\* C8 witness: the three steps have run on a seed with an empty-string
\* destination (set, so not asked for), no origin (asked for) and a budget.
C8_Witness ==
    /\ Ran("max_budget_step")
    /\ seed.destination = PyStr(EmptyStr)
    /\ seed.origin = None
    /\ seed.max_budget # None
    /\ Cardinality(BegunBy("origin_step")) = 1
    /\ BegunBy("destination_step") = {}

\* unset (None or empty) or lacking the "definite" TIMEX type
UnsetOrAmbiguous(v) ==
    \/ v.kind = "none"
    \/ v.kind = "str" /\ "definite" \notin TimexTypes(v.s)

\* C9 as stated: travel_date_step begins the departure Date Resolver,
\* seeded with the current travel_date, exactly when travel_date is unset
\* or ambiguous, and travel_back_date_step the return Date Resolver, seeded
\* with travel_back_date, exactly when that is unset or ambiguous; an exact
\* calendar day is never ambiguous, a month-only or weekday-only expression
\* always is.
C9_DateDelegation ==
    /\ Ran("travel_date_step") =>
          /\ Cardinality(BegunBy("travel_date_step")) =
                IF UnsetOrAmbiguous(seed.travel_date) THEN 1 ELSE 0
          /\ \A i \in BegunBy("travel_date_step") :
                /\ prompts[i].id = DepartureDialogId
                /\ prompts[i].options = seed.travel_date
    /\ Ran("travel_back_date_step") =>
          /\ Cardinality(BegunBy("travel_back_date_step")) =
                IF UnsetOrAmbiguous(seed.travel_back_date) THEN 1 ELSE 0
          /\ \A i \in BegunBy("travel_back_date_step") :
                /\ prompts[i].id = ReturnDialogId
                /\ prompts[i].options = seed.travel_back_date
    /\ ~is_ambiguous(PyStr(D0801))
    /\ is_ambiguous(PyStr(DMonth))
    /\ is_ambiguous(PyStr(DWeekday))

\* the greatest score of a non-empty intents mapping
MaxScoreOf(intents) ==
    CHOOSE v \in {intents[i].score : i \in 1..Len(intents)} :
        \A i \in 1..Len(intents) : intents[i].score <= v

\* C10: for a non-empty intents mapping execute_luis_query returns as
\* intent the label with the greatest score, and among several labels with
\* the greatest score the first in the mapping's iteration order.
C10_TopIntent ==
    (lq.pc = "returned" /\ Len(lq.intents) > 0) =>
        \E i \in 1..Len(lq.intents) :
            /\ lq.intent = <<lq.intents[i].label>>
            /\ lq.intents[i].score = MaxScoreOf(lq.intents)
            /\ \A j \in 1..(i - 1) : lq.intents[j].score < lq.intents[i].score

\* C10 witness: a call has returned on a mapping of three labels, the last
\* two sharing the greatest score, with the second as intent.
C10_Witness ==
    /\ lq.pc = "returned"
    /\ Len(lq.intents) = 3
    /\ lq.intents[1].score < lq.intents[2].score
    /\ lq.intents[2].score = lq.intents[3].score
    /\ lq.intent = <<lq.intents[2].label>>

\* C11 as stated: when the returned intent is "BookFlight", each of the five
\* fields equals the first value of its entity category when the category
\* is present with a first value, and is None when the category is absent,
\* whatever the other categories are.
C11_EntityProjection ==
    (lq.pc = "returned" /\ lq.intent = <<BOOK_FLIGHT>>) =>
        /\ lq.result # <<>>
        /\ \A i \in 1..Len(Projection) :
              LET e == lq.entities[Projection[i].category]
                  v == lq.result[1][Projection[i].field]
              IN /\ (e.present /\ Len(e.vals) > 0) => v = e.vals[1]
                 /\ ~e.present => v = None

\* C12: execute_luis_query never lets an exception out: a call in which
\* anything raised has returned, having printed the exception, and when it
\* was the recognizer that raised, the pair returned is (None, None).
C12_NoExceptionPropagates ==
    /\ lq.pc # "raised"
    /\ lq.exception # "none" => (lq.pc = "returned" /\ lq.logged)
    /\ lq.exception = "RecognizerError" =>
          (lq.intent = <<>> /\ lq.result = <<>>)

\* C12 witness: a call has returned although the entity projection raised
\* IndexError inside it.
C12_Witness ==
    /\ lq.pc = "returned"
    /\ lq.exception = "IndexError"
    /\ lq.intent = <<BOOK_FLIGHT>>

\* C19: execute_luis_query returns a record only together with the intent
\* "BookFlight": with any other intent, and with the intent None (an empty
\* intents mapping, or a recognizer that raised), the record is None.
C19_ResultOnlyForBookFlight ==
    lq.pc = "returned" =>
        /\ lq.result # <<>> => lq.intent = <<BOOK_FLIGHT>>
        /\ lq.intent = <<>> => lq.result = <<>>
        /\ (Len(lq.intents) = 0) => (lq.intent = <<>> /\ lq.result = <<>>)

\* C19 witness: a call has returned the top intent "GetWeather" and no
\* record, for a result that carried entities.
C19_Witness ==
    /\ lq.pc = "returned"
    /\ lq.intent = <<"GetWeather">>
    /\ lq.result = <<>>
    /\ lq.entities["To"].present
    /\ lq.exception = "none"

\* C13 as stated: every telemetry event tracked by final_step carries as
\* DialogId the id the dialog is registered under, whether the dialog was
\* constructed with an id or with the default one.
C13_EventDialogId ==
    \A i \in 1..Len(events) : events[i].DialogId = RegisteredId(dialog_id)

\* C14: once a cancellation was observed at a suspension point (a prompt
\* or a Date Resolver), the flow has ended: no step can run any more, the
\* steps executed are those up to the suspended one, nothing was returned
\* and no telemetry event was tracked.
C14_CancelEndsFlow ==
    pc = "cancelled" =>
        /\ ~ENABLED Next
        /\ Len(trace) = stepIndex + 1
        /\ Len(answers) = Len(prompts) - 1
        /\ ~Ran("final_step")
        /\ returned = <<>>
        /\ events = <<>>

\* C14 witness: the departure Date Resolver was cancelled; four steps have
\* run.
C14_Witness ==
    /\ pc = "cancelled"
    /\ prompts[Len(prompts)].id = DepartureDialogId
    /\ Len(trace) = 4
    /\ events = <<>>

\* C16 as stated: a flow that can go no further has ended in final_step or
\* by cancellation, and it was suspended at most six times: at most three
\* text prompts, two Date Resolvers and one confirmation prompt.
C16_FlowEnds ==
    /\ pc \in {"done", "cancelled"} \/ ENABLED Next
    /\ Len(prompts) <= 6
    /\ Count(PromptIds, TextPromptId) <= 3
    /\ Count(PromptIds, DepartureDialogId) + Count(PromptIds, ReturnDialogId) <= 2
    /\ Count(PromptIds, ConfirmPromptId) <= 1

\* C17: a BookingDetails is returned, or "SuggestionConfirmed" tracked, only
\* after confirm_step rendered the summary and issued the yes/no prompt
\* and that prompt, the last one of the run, was answered with yes.
C17_ReturnOnlyAfterConfirmation ==
    (returned \notin {<<>>, <<None>>} \/
     \E i \in 1..Len(events) : events[i].name = "SuggestionConfirmed") =>
        /\ Ran("confirm_step")
        /\ summary = <<bd>>
        /\ returned = <<bd>>
        /\ Len(prompts) > 0
        /\ prompts[Len(prompts)].id = ConfirmPromptId
        /\ prompts[Len(prompts)].step = "confirm_step"
        /\ Len(answers) = Len(prompts)
        /\ answers[Len(answers)] = PyBool(TRUE)

\* C17 witness: a fully populated seed, passed through without a question,
\* has been returned after the yes to the confirmation prompt.
C17_Witness ==
    /\ FullSeed
    /\ returned = <<bd>>
    /\ PromptIds = <<ConfirmPromptId>>
    /\ answers = <<PyBool(TRUE)>>

\* the field each capturing step writes
WrittenBy(step) ==
    CASE step = "origin_step" -> "destination"
      [] step = "max_budget_step" -> "origin"
      [] step = "travel_date_step" -> "max_budget"
      [] step = "travel_back_date_step" -> "travel_date"
      [] step = "confirm_step" -> "travel_back_date"
      [] OTHER -> "none"

\* the step that asks for a field
AskedBy(field) ==
    CASE field = "destination" -> "destination_step"
      [] field = "origin" -> "origin_step"
      [] field = "max_budget" -> "max_budget_step"
      [] field = "travel_date" -> "travel_date_step"
      [] field = "travel_back_date" -> "travel_back_date_step"

\* C18: each capturing step writes the one field it is responsible for,
\* with the result it was handed, and no step changes any other field;
\* so once confirm_step has run, a field its step asked for holds the
\* answer to that prompt or Date Resolver, and a field not asked for holds
\* the seed's value.
C18_FrameOfCapture ==
    /\ [](Ran("confirm_step") =>
            \A f \in Fields :
                /\ \A i \in BegunBy(AskedBy(f)) : bd[f] = answers[i]
                /\ BegunBy(AskedBy(f)) = {} => (bd[f] = seed[f] /\ seed[f] # None))
    /\ [][\A f \in Fields :
            /\ bd'[f] # bd[f] =>
                  /\ Len(trace') = Len(trace) + 1
                  /\ WrittenBy(trace'[Len(trace')]) = f
            /\ (Len(trace') = Len(trace) + 1 /\ WrittenBy(trace'[Len(trace')]) = f)
                  => bd'[f] = result]_vars

\* C18 witness: confirm_step has run on a seed with a destination and dates
\* and without origin and budget; the two were asked for and hold the
\* answers, the destination still holds the seed's value.
C18_Witness ==
    /\ Ran("confirm_step")
    /\ seed.destination = PyStr(Paris)
    /\ seed.origin = None /\ seed.max_budget = None
    /\ Len(answers) >= 2
    /\ bd.origin = answers[1]
    /\ bd.max_budget = answers[2]
    /\ bd.destination = seed.destination

\* C20 as stated: every executed step other than final_step has either
\* passed through or suspended on exactly one prompt or Date Resolver; a
\* conversation has at most one of them pending, exactly when it is
\* suspended; and the step that runs on resumption is the one after the
\* suspended step, with the answer as its result.
C20_PassOrSuspend ==
    /\ pc \in {"run", "wait", "done", "cancelled"}
    /\ Len(prompts) - Len(answers) \in {0, 1}
    /\ pc = "wait" <=> pending # "none"
    /\ pc \in {"wait", "cancelled"} <=> Len(prompts) = Len(answers) + 1
    /\ \A i \in 1..Len(trace) :
          Cardinality(BegunBy(trace[i])) <= 1
    /\ (pc = "wait" /\ Len(trace) > 0) =>
          /\ prompts[Len(prompts)].step = trace[Len(trace)]
          /\ prompts[Len(prompts)].id = pending
    /\ (pc = "run" /\ Len(trace) > 0 /\ BegunBy(trace[Len(trace)]) # {}) =>
          /\ result = answers[Len(answers)]
          /\ stepIndex = Len(trace)

RECURSIVE Replay(_, _, _, _)
\* conversation c run alone: its own turns from the i-th on, applied to st
Replay(st, c, turns, i) ==
    IF i > Len(turns) THEN st
    ELSE Replay(ApplyTurn(st, c, turns[i]), c, turns, i + 1)

\* C15: with the turns of several conversations interleaved in any order,
\* the dialog state of each conversation (its BookingDetails, step index,
\* position, pending prompt, warnings, events and returned value) is what
\* its own turns alone produce from its own start, and the BookingDetails
\* created with default arguments share no list.
C15_ConversationsIsolated ==
    \A c \in Convs :
        /\ world.st[c] = Replay(world.init, c, world.log[c], 1)[c]
        /\ \A d \in Convs \ {c} :
              world.st[c].bd.unsupported_airports #
                  world.st[d].bd.unsupported_airports

\* C15 witness: two conversations started on the same empty seed have both
\* ended in final_step, the first turn of the second falling between two
\* turns of the first, with different bookings returned.
C15_Witness ==
    /\ world.st[1].pc = "done" /\ world.st[2].pc = "done"
    /\ world.init[1].bd.destination = None
    /\ world.init[2].bd.destination = None
    /\ world.st[1].returned # <<None>>
    /\ world.st[2].returned # <<None>>
    /\ world.st[1].bd.destination # world.st[2].bd.destination
    /\ Len(world.telemetry) = 2

====
